---- MODULE Spec2Model ----
(***************************************************************************)
(* Model of svg_to_pdf.py: main() enumerates SVG pages into a              *)
(* multiprocessing queue, starts one convert_svg_to_pdf worker per CPU,    *)
(* joins them and hands the collected (page_number, pdf_content) tuples    *)
(* to write_pdf, which sorts them and feeds them to a PdfMerger.           *)
(***************************************************************************)
EXTENDS Integers, Sequences, FiniteSets, TLC

\* ---- bounds of the model -------------------------------------------------
MaxTasks == 2
NumWorkers == 2
MaxPageIndex == 1
MaxNameLen == 3

\* ---- program constants ---------------------------------------------------
\* Byte strings are modelled by their rank in the bytes ordering that tuple
\* comparison uses; BLANK_PDF_PAGE is the rank of the placeholder page.
BLANK_PDF_PAGE == 1

Workers == 1..NumWorkers
PageIndexes == 0..MaxPageIndex

\* Outcomes of svg2rlg + renderPDF.drawToString on one page's bytes: the call
\* raises (RenderError) or returns a byte string; the returned bytes may sort
\* below the placeholder (0), equal it (1) or sort above it (2).
RenderError == -1
RenderedBlobs == {0, BLANK_PDF_PAGE, 2}
RenderOutcomes == {RenderError} \cup RenderedBlobs

\* File names are sequences of characters: decimal digits and one character
\* that is no digit. Names are drawn from the digits up to MaxPageIndex.
DigitChars == <<"0", "1", "2", "3", "4", "5", "6", "7", "8", "9">>
IsDigit(c) == \E d \in 1..Len(DigitChars) : DigitChars[d] = c
DigitValue(c) == (CHOOSE d \in 1..Len(DigitChars) : DigitChars[d] = c) - 1
NameChars == {"p"} \cup {DigitChars[d + 1] : d \in 0..MaxPageIndex}
NoFile == <<>>

\* int(text) on a run of decimal digits
RECURSIVE IntOf(_)
IntOf(text) ==
    IF text = <<>> THEN 0
    ELSE IntOf(SubSeq(text, 1, Len(text) - 1)) * 10 + DigitValue(text[Len(text)])

\* end of the greedy match of \d+ that starts at position i
RECURSIVE RunEnd(_, _)
RunEnd(file_name, i) ==
    IF i < Len(file_name) /\ IsDigit(file_name[i + 1])
    THEN RunEnd(file_name, i + 1)
    ELSE i

\* re.findall(r'\d+', file_name), scanning from position i
RECURSIVE FindAllFrom(_, _)
FindAllFrom(file_name, i) ==
    IF i > Len(file_name) THEN <<>>
    ELSE IF IsDigit(file_name[i])
         THEN <<SubSeq(file_name, i, RunEnd(file_name, i))>>
              \o FindAllFrom(file_name, RunEnd(file_name, i) + 1)
         ELSE FindAllFrom(file_name, i + 1)

\* mutant: the first match is taken instead of the last
PageNumber_FirstMatch(file_name) ==
    LET matches == FindAllFrom(file_name, 1)
    IN IF matches = <<>> THEN 0 ELSE IntOf(matches[1])

\* page_number(file_name, pattern): int(re.findall(pattern, file_name)[-1]),
\* and 0 when there is no match (IndexError)
PageNumber(file_name) ==
    LET matches == FindAllFrom(file_name, 1)
    IN IF matches = <<>> THEN 0 ELSE IntOf(matches[Len(matches)])

\* the file names enumerated: up to MaxNameLen characters, page number
\* within PageIndexes
FileNames ==
    {n \in UNION {[1..k -> NameChars] : k \in 1..MaxNameLen} :
        PageNumber(n) \in PageIndexes}

\* a task is the tuple (page_number, svg_data); svg_data is the content of
\* one enumerated file, named here by the file's ordinal
NoTask == [page_number |-> 0, svg_data |-> 0]

\* merger.append(BytesIO(pdf)) raises on a corrupt blob; the blob of rank 2
\* stands for a rendered page that PyPDF2 cannot parse (the placeholder is a
\* well-formed one-page PDF).
MergerRejects(pdf) == pdf = 2

VARIABLES
    mainpc,               \* position of main()
    file,                 \* process_files: name of the file of the current iteration
    buffer,               \* svg_queue: items put but not yet written to the pipe
    pipe,                 \* svg_queue: items in the pipe
    sem,                  \* svg_queue: value qsize() reports
    rlock,                \* svg_queue: reader lock holder (0 = free)
    number_of_svg_files,  \* returned by process_files
    started,              \* processes started so far
    joined,               \* processes joined so far
    pc,                   \* position of each worker
    task,                 \* (page_number, svg_data) held by each worker
    output_list,          \* the manager list of results
    cursor,               \* write_pdf: index of the loop over output_list
    merged,               \* write_pdf: results the merger accepted, in order
    fed,                  \* write_pdf: results handed to merger.append, in order
    error_page,           \* write_pdf: error_page list
    written,              \* write_pdf: merger.write(file_name) happened
    report,               \* write_pdf: which summary line was printed
    files,                \* history: tasks enumerated, in enumeration order
    pulls,                \* history: number of times each file was pulled
    renders,              \* history: outcomes of the adapter calls on each file
    appended              \* history: output_list as it was before the sort

vars == <<mainpc, file, buffer, pipe, sem, rlock, number_of_svg_files, started,
          joined, pc, task, output_list, cursor, merged, fed,
          error_page, written, report, files, pulls, renders,
          appended>>

queueVars == <<buffer, pipe, sem, rlock>>
workerVars == <<pc, task>>
writeVars == <<cursor, merged, fed, error_page, written, report>>
historyVars == <<files, pulls, renders, appended>>

Init ==
    /\ mainpc = "process_files"
    /\ file = NoFile
    /\ buffer = <<>>
    /\ pipe = <<>>
    /\ sem = 0
    /\ rlock = 0
    /\ number_of_svg_files = 0
    /\ started = 0
    /\ joined = 0
    /\ pc = [w \in Workers |-> "new"]
    /\ task = [w \in Workers |-> NoTask]
    /\ output_list = <<>>
    /\ cursor = 0
    /\ merged = <<>>
    /\ fed = <<>>
    /\ error_page = <<>>
    /\ written = FALSE
    /\ report = "none"
    /\ files = <<>>
    /\ pulls = <<>>
    /\ renders = <<>>
    /\ appended = <<>>

\* ---- process_files -------------------------------------------------------

\* svg_queue.put((page_number(file, pattern), svg_data)) for one more file
Put(file_name) ==
    /\ mainpc = "process_files"
    /\ Len(files) < MaxTasks
    /\ file' = file_name
    /\ LET t == [page_number |-> PageNumber(file_name),
                 svg_data |-> Len(files) + 1]
       IN /\ buffer' = Append(buffer, t)
          /\ files' = Append(files, t)
    /\ sem' = sem + 1
    /\ pulls' = Append(pulls, 0)
    /\ renders' = Append(renders, <<>>)
    /\ UNCHANGED <<mainpc, pipe, rlock, number_of_svg_files, started, joined,
                   output_list, appended>>
    /\ UNCHANGED workerVars
    /\ UNCHANGED writeVars

\* number_of_svg_files = svg_queue.qsize(); return
ProcessFilesReturn ==
    /\ mainpc = "process_files"
    /\ number_of_svg_files' = sem
    /\ mainpc' = "start"
    /\ file' = NoFile
    /\ UNCHANGED <<started, joined, output_list>>
    /\ UNCHANGED queueVars
    /\ UNCHANGED workerVars
    /\ UNCHANGED writeVars
    /\ UNCHANGED historyVars

\* mutant: the kind of the path is only looked at after the files were read
ProcessFilesRaise_Late ==
    /\ mainpc = "process_files"
    /\ mainpc' = "raised"
    /\ file' = NoFile
    /\ UNCHANGED <<number_of_svg_files, started, joined, output_list>>
    /\ UNCHANGED queueVars
    /\ UNCHANGED workerVars
    /\ UNCHANGED writeVars
    /\ UNCHANGED historyVars

\* the path is neither a directory nor a zip archive:
\* raise TypeError("Directory or zip file is required."), which main() does
\* not catch; no file was read before
ProcessFilesRaise ==
    /\ mainpc = "process_files"
    /\ files = <<>>
    /\ mainpc' = "raised"
    /\ UNCHANGED <<file, number_of_svg_files, started, joined, output_list>>
    /\ UNCHANGED queueVars
    /\ UNCHANGED workerVars
    /\ UNCHANGED writeVars
    /\ UNCHANGED historyVars

\* the queue's feeder thread moves one buffered item into the pipe
Feed ==
    /\ buffer # <<>>
    /\ pipe' = Append(pipe, Head(buffer))
    /\ buffer' = Tail(buffer)
    /\ UNCHANGED <<mainpc, sem, rlock, number_of_svg_files, started, joined,
                   output_list>>
    /\ UNCHANGED workerVars
    /\ UNCHANGED writeVars
    /\ UNCHANGED historyVars
    /\ UNCHANGED file

\* ---- main: start and join the processes ----------------------------------

\* p = mp.Process(target=convert_svg_to_pdf, ...); p.start()
StartProcess ==
    /\ mainpc = "start"
    /\ started < NumWorkers
    /\ started' = started + 1
    /\ pc' = [pc EXCEPT ![started + 1] = "qsize"]
    /\ mainpc' = IF started + 1 = NumWorkers THEN "join" ELSE "start"
    /\ UNCHANGED <<number_of_svg_files, joined, output_list, task>>
    /\ UNCHANGED queueVars
    /\ UNCHANGED writeVars
    /\ UNCHANGED historyVars
    /\ UNCHANGED file

\* mutant: main() goes on without waiting for the process to exit
JoinProcess_NoWait ==
    /\ mainpc = "join"
    /\ joined < NumWorkers
    /\ joined' = joined + 1
    /\ mainpc' = IF joined + 1 = NumWorkers THEN "write_pdf" ELSE "join"
    /\ UNCHANGED <<number_of_svg_files, started, output_list>>
    /\ UNCHANGED queueVars
    /\ UNCHANGED workerVars
    /\ UNCHANGED writeVars
    /\ UNCHANGED historyVars
    /\ UNCHANGED file

\* p.join() returns once that process has exited
JoinProcess ==
    /\ mainpc = "join"
    /\ joined < NumWorkers
    /\ pc[joined + 1] = "exited"
    /\ joined' = joined + 1
    /\ mainpc' = IF joined + 1 = NumWorkers THEN "write_pdf" ELSE "join"
    /\ UNCHANGED <<number_of_svg_files, started, output_list>>
    /\ UNCHANGED queueVars
    /\ UNCHANGED workerVars
    /\ UNCHANGED writeVars
    /\ UNCHANGED historyVars
    /\ UNCHANGED file

\* ---- convert_svg_to_pdf --------------------------------------------------

\* mutant: the loop ends as soon as the pipe looks empty (queue.empty())
CheckQsize_PipeEmpty(w) ==
    /\ pc[w] = "qsize"
    /\ pc' = [pc EXCEPT ![w] = IF pipe # <<>> THEN "get" ELSE "exited"]
    /\ UNCHANGED <<mainpc, number_of_svg_files, started, joined, output_list,
                   task>>
    /\ UNCHANGED queueVars
    /\ UNCHANGED writeVars
    /\ UNCHANGED historyVars
    /\ UNCHANGED file

\* while svg_queue.qsize() > 0
CheckQsize(w) ==
    /\ pc[w] = "qsize"
    /\ pc' = [pc EXCEPT ![w] = IF sem > 0 THEN "get" ELSE "exited"]
    /\ UNCHANGED <<mainpc, number_of_svg_files, started, joined, output_list,
                   task>>
    /\ UNCHANGED queueVars
    /\ UNCHANGED writeVars
    /\ UNCHANGED historyVars
    /\ UNCHANGED file

\* mutant: an Empty from get_nowait ends the loop instead of retrying
GetNowait_BreakOnEmpty(w) ==
    /\ pc[w] = "get"
    /\ IF rlock # 0 \/ pipe = <<>>
       THEN /\ pc' = [pc EXCEPT ![w] = "exited"]
            /\ UNCHANGED <<pipe, rlock, task, pulls>>
       ELSE /\ task' = [task EXCEPT ![w] = Head(pipe)]
            /\ pipe' = Tail(pipe)
            /\ rlock' = w
            /\ pulls' = [pulls EXCEPT ![Head(pipe).svg_data] = @ + 1]
            /\ pc' = [pc EXCEPT ![w] = "got"]
    /\ UNCHANGED <<mainpc, buffer, sem, number_of_svg_files, started, joined,
                   output_list, files, renders, appended>>
    /\ UNCHANGED writeVars
    /\ UNCHANGED file

\* svg_queue.get_nowait(): raises Empty when the reader lock is taken or the
\* pipe holds nothing, otherwise receives the head item under the lock.
GetNowait(w) ==
    /\ pc[w] = "get"
    /\ IF rlock # 0 \/ pipe = <<>>
       THEN /\ pc' = [pc EXCEPT ![w] = "qsize"]
            /\ UNCHANGED <<pipe, rlock, task, pulls>>
       ELSE /\ task' = [task EXCEPT ![w] = Head(pipe)]
            /\ pipe' = Tail(pipe)
            /\ rlock' = w
            /\ pulls' = [pulls EXCEPT ![Head(pipe).svg_data] = @ + 1]
            /\ pc' = [pc EXCEPT ![w] = "got"]
    /\ UNCHANGED <<mainpc, buffer, sem, number_of_svg_files, started, joined,
                   output_list, files, renders, appended>>
    /\ UNCHANGED writeVars
    /\ UNCHANGED file

\* mutant: the receive does not give the size semaphore back
GetRelease_NoSemRelease(w) ==
    /\ pc[w] = "got"
    /\ rlock' = 0
    /\ pc' = [pc EXCEPT ![w] = "convert"]
    /\ UNCHANGED <<mainpc, buffer, pipe, sem, number_of_svg_files, started,
                   joined, output_list, task>>
    /\ UNCHANGED writeVars
    /\ UNCHANGED historyVars
    /\ UNCHANGED file

\* get_nowait(), after the receive: release the size semaphore and the lock
GetRelease(w) ==
    /\ pc[w] = "got"
    /\ sem' = sem - 1
    /\ rlock' = 0
    /\ pc' = [pc EXCEPT ![w] = "convert"]
    /\ UNCHANGED <<mainpc, buffer, pipe, number_of_svg_files, started, joined,
                   output_list, task>>
    /\ UNCHANGED writeVars
    /\ UNCHANGED historyVars
    /\ UNCHANGED file

\* mutant: a failed rendering publishes nothing and the loop goes on
ConvertAndAppend_DropFailed(w, out) ==
    /\ pc[w] = "convert"
    /\ LET r == [page_number |-> task[w].page_number, pdf |-> out,
                 file |-> task[w].svg_data]
       IN /\ output_list' = IF out = RenderError THEN output_list
                            ELSE Append(output_list, r)
          /\ appended' = IF out = RenderError THEN appended
                         ELSE Append(appended, r)
    /\ renders' = [renders EXCEPT ![task[w].svg_data] = Append(@, out)]
    /\ pc' = [pc EXCEPT ![w] = "qsize"]
    /\ UNCHANGED <<mainpc, number_of_svg_files, started, joined, task, files,
                   pulls>>
    /\ UNCHANGED queueVars
    /\ UNCHANGED writeVars
    /\ UNCHANGED file

\* mutant: the rendering exception is not caught and ends the worker
ConvertAndAppend_Raise(w, out) ==
    /\ pc[w] = "convert"
    /\ LET r == [page_number |-> task[w].page_number, pdf |-> out,
                 file |-> task[w].svg_data]
       IN /\ output_list' = IF out = RenderError THEN output_list
                            ELSE Append(output_list, r)
          /\ appended' = IF out = RenderError THEN appended
                         ELSE Append(appended, r)
    /\ renders' = [renders EXCEPT ![task[w].svg_data] = Append(@, out)]
    /\ pc' = [pc EXCEPT ![w] = IF out = RenderError THEN "exited" ELSE "qsize"]
    /\ UNCHANGED <<mainpc, number_of_svg_files, started, joined, task, files,
                   pulls>>
    /\ UNCHANGED queueVars
    /\ UNCHANGED writeVars
    /\ UNCHANGED file

\* mutant: a failed page is put back on the queue to be rendered again
ConvertAndAppend_Requeue(w, out) ==
    /\ pc[w] = "convert"
    /\ LET r == [page_number |-> task[w].page_number, pdf |-> out,
                 file |-> task[w].svg_data]
       IN IF out = RenderError /\ renders[task[w].svg_data] = <<>>
          THEN /\ pipe' = Append(pipe, task[w])
               /\ sem' = sem + 1
               /\ UNCHANGED <<output_list, appended>>
          ELSE /\ output_list' = Append(output_list,
                      IF out = RenderError
                      THEN [r EXCEPT !.pdf = BLANK_PDF_PAGE] ELSE r)
               /\ appended' = Append(appended,
                      IF out = RenderError
                      THEN [r EXCEPT !.pdf = BLANK_PDF_PAGE] ELSE r)
               /\ UNCHANGED <<pipe, sem>>
    /\ renders' = [renders EXCEPT ![task[w].svg_data] = Append(@, out)]
    /\ pc' = [pc EXCEPT ![w] = "qsize"]
    /\ UNCHANGED <<mainpc, buffer, rlock, number_of_svg_files, started, joined,
                   task, files, pulls>>
    /\ UNCHANGED writeVars
    /\ UNCHANGED file

\* mutant: the result is published without the task's page number
ConvertAndAppend_LosesPage(w, out) ==
    /\ pc[w] = "convert"
    /\ LET pdf_content == IF out = RenderError THEN BLANK_PDF_PAGE ELSE out
           r == [page_number |-> 0, pdf |-> pdf_content,
                 file |-> task[w].svg_data]
       IN /\ output_list' = Append(output_list, r)
          /\ appended' = Append(appended, r)
    /\ renders' = [renders EXCEPT ![task[w].svg_data] = Append(@, out)]
    /\ pc' = [pc EXCEPT ![w] = "qsize"]
    /\ UNCHANGED <<mainpc, number_of_svg_files, started, joined, task, files,
                   pulls>>
    /\ UNCHANGED queueVars
    /\ UNCHANGED writeVars
    /\ UNCHANGED file

\* mutant: the result is inserted at the front of the list
ConvertAndAppend_Prepend(w, out) ==
    /\ pc[w] = "convert"
    /\ LET pdf_content == IF out = RenderError THEN BLANK_PDF_PAGE ELSE out
           r == [page_number |-> task[w].page_number, pdf |-> pdf_content,
                 file |-> task[w].svg_data]
       IN /\ output_list' = <<r>> \o output_list
          /\ appended' = <<r>> \o appended
    /\ renders' = [renders EXCEPT ![task[w].svg_data] = Append(@, out)]
    /\ pc' = [pc EXCEPT ![w] = "qsize"]
    /\ UNCHANGED <<mainpc, number_of_svg_files, started, joined, task, files,
                   pulls>>
    /\ UNCHANGED queueVars
    /\ UNCHANGED writeVars
    /\ UNCHANGED file

\* try: drawing = svg2rlg(...); pdf_content = renderPDF.drawToString(drawing)
\* except Exception: pdf_content = BLANK_PDF_PAGE
\* output_list.append((page_number, pdf_content))
ConvertAndAppend(w, out) ==
    /\ pc[w] = "convert"
    /\ LET pdf_content == IF out = RenderError THEN BLANK_PDF_PAGE ELSE out
           r == [page_number |-> task[w].page_number, pdf |-> pdf_content,
                 file |-> task[w].svg_data]
       IN /\ output_list' = Append(output_list, r)
          /\ appended' = Append(appended, r)
    /\ renders' = [renders EXCEPT ![task[w].svg_data] = Append(@, out)]
    /\ pc' = [pc EXCEPT ![w] = "qsize"]
    /\ UNCHANGED <<mainpc, number_of_svg_files, started, joined, task, files,
                   pulls>>
    /\ UNCHANGED queueVars
    /\ UNCHANGED writeVars
    /\ UNCHANGED file

Worker(w) ==
    \/ CheckQsize(w)
    \/ GetNowait(w)
    \/ GetRelease(w)
    \/ \E out \in RenderOutcomes : ConvertAndAppend(w, out)

\* ---- write_pdf -----------------------------------------------------------

\* mutant: the sort key is the page number alone
TupleLess_PageOnly(a, b) == a.page_number < b.page_number

\* (page_number, pdf_content) tuple comparison used by list.sort()
TupleLess(a, b) ==
    \/ a.page_number < b.page_number
    \/ a.page_number = b.page_number /\ a.pdf < b.pdf

\* stable insertion of x into the sorted sequence s
RECURSIVE Insert(_, _)
Insert(s, x) ==
    IF s = <<>> THEN <<x>>
    ELSE IF TupleLess(x, s[Len(s)])
         THEN Append(Insert(SubSeq(s, 1, Len(s) - 1), x), s[Len(s)])
         ELSE Append(s, x)

\* mutant: the list is merged in collection order
SortList_None(s) == s

\* list.sort(): stable, ascending
RECURSIVE SortList(_)
SortList(s) ==
    IF s = <<>> THEN <<>>
    ELSE Insert(SortList(SubSeq(s, 1, Len(s) - 1)), s[Len(s)])

\* if output_list: error_page = []; output_list.sort(); merger = PdfMerger()
\* (an empty list skips the whole body and write_pdf returns)
WritePdfBegin ==
    /\ mainpc = "write_pdf"
    /\ IF output_list = <<>>
       THEN /\ mainpc' = "done"
            /\ UNCHANGED output_list
       ELSE /\ mainpc' = "merge"
            /\ output_list' = SortList(output_list)
    /\ UNCHANGED <<number_of_svg_files, started, joined, files, pulls, renders,
                   appended>>
    /\ UNCHANGED queueVars
    /\ UNCHANGED workerVars
    /\ UNCHANGED writeVars
    /\ UNCHANGED file

\* mutant: the exception of merger.append is not caught and ends write_pdf
MergerAppend_Abort ==
    /\ mainpc = "merge"
    /\ cursor < Len(output_list)
    /\ LET r == output_list[cursor + 1]
       IN /\ fed' = Append(fed, r)
          /\ IF MergerRejects(r.pdf)
             THEN /\ mainpc' = "done"
                  /\ UNCHANGED <<merged, error_page>>
             ELSE /\ mainpc' = mainpc
                  /\ merged' = Append(merged, r)
                  /\ error_page' = IF r.pdf = BLANK_PDF_PAGE
                                   THEN Append(error_page, r.page_number)
                                   ELSE error_page
    /\ cursor' = cursor + 1
    /\ UNCHANGED <<number_of_svg_files, started, joined, output_list,
                   written, report>>
    /\ UNCHANGED queueVars
    /\ UNCHANGED workerVars
    /\ UNCHANGED historyVars
    /\ UNCHANGED file

\* mutant: an accepted placeholder page is not recorded in error_page
MergerAppend_NoBlankCheck ==
    /\ mainpc = "merge"
    /\ cursor < Len(output_list)
    /\ LET r == output_list[cursor + 1]
       IN /\ fed' = Append(fed, r)
          /\ IF MergerRejects(r.pdf)
             THEN /\ error_page' = Append(error_page, r.page_number)
                  /\ UNCHANGED merged
             ELSE /\ merged' = Append(merged, r)
                  /\ UNCHANGED error_page
    /\ cursor' = cursor + 1
    /\ UNCHANGED <<mainpc, number_of_svg_files, started, joined, output_list,
                   written, report>>
    /\ UNCHANGED queueVars
    /\ UNCHANGED workerVars
    /\ UNCHANGED historyVars
    /\ UNCHANGED file

\* one iteration of: for i, pdf in output_list
MergerAppend ==
    /\ mainpc = "merge"
    /\ cursor < Len(output_list)
    /\ LET r == output_list[cursor + 1]
       IN /\ fed' = Append(fed, r)
          /\ IF MergerRejects(r.pdf)
             THEN /\ error_page' = Append(error_page, r.page_number)
                  /\ UNCHANGED merged
             ELSE /\ merged' = Append(merged, r)
                  /\ error_page' = IF r.pdf = BLANK_PDF_PAGE
                                   THEN Append(error_page, r.page_number)
                                   ELSE error_page
    /\ cursor' = cursor + 1
    /\ UNCHANGED <<mainpc, number_of_svg_files, started, joined, output_list,
                   written, report>>
    /\ UNCHANGED queueVars
    /\ UNCHANGED workerVars
    /\ UNCHANGED historyVars
    /\ UNCHANGED file

\* merger.write(file_name); merger.close(); print the summary
MergerWrite ==
    /\ mainpc = "merge"
    /\ cursor = Len(output_list)
    /\ written' = TRUE
    /\ report' = IF error_page # <<>> THEN "errors" ELSE "success"
    /\ mainpc' = "done"
    /\ UNCHANGED <<number_of_svg_files, started, joined, output_list, cursor,
                   merged, fed, error_page, files, pulls, renders,
                   appended>>
    /\ UNCHANGED queueVars
    /\ UNCHANGED workerVars
    /\ UNCHANGED file

Next ==
    \/ mainpc = "process_files" /\ \E file_name \in FileNames : Put(file_name)
    \/ ProcessFilesReturn
    \/ ProcessFilesRaise
    \/ Feed
    \/ StartProcess
    \/ JoinProcess
    \/ \E w \in Workers : Worker(w)
    \/ WritePdfBegin
    \/ MergerAppend
    \/ MergerWrite

Spec == Init /\ [][Next]_vars

\* Termination is checked on the same steps for a path that is a directory
\* or an archive, with every file given page index 0: no guard of any step
\* reads a page number.
LivePages == {0}
LiveNames == {n \in FileNames : Len(n) = 1 /\ PageNumber(n) \in LivePages}

LiveNext ==
    \/ mainpc = "process_files" /\ \E file_name \in LiveNames : Put(file_name)
    \/ ProcessFilesReturn
    \/ Feed
    \/ StartProcess
    \/ JoinProcess
    \/ \E w \in Workers : Worker(w)
    \/ WritePdfBegin
    \/ MergerAppend
    \/ MergerWrite

\* the operating system schedules every process and the feeder thread
FairSpec ==
    /\ Init
    /\ [][LiveNext]_vars
    /\ WF_vars(ProcessFilesReturn)
    /\ WF_vars(Feed)
    /\ WF_vars(StartProcess)
    /\ WF_vars(JoinProcess)
    /\ \A w \in Workers : WF_vars(Worker(w))
    /\ WF_vars(WritePdfBegin)
    /\ WF_vars(MergerAppend)
    /\ WF_vars(MergerWrite)

\* ---- properties ----------------------------------------------------------

FileIds == 1..Len(files)
AllExited == \A w \in Workers : pc[w] = "exited"
WritePdfBegun == mainpc \in {"write_pdf", "merge", "done"}
\* what the adapter did on file f (rendered at most once, see C9)
Outcome(f) == renders[f][Len(renders[f])]
Failed(f) == renders[f] # <<>> /\ Outcome(f) = RenderError
Rendered(f) == renders[f] # <<>> /\ Outcome(f) \in RenderedBlobs
DistinctPages ==
    \A f, g \in FileIds : f # g => files[f].page_number # files[g].page_number
\* position of file f's result in the sequence s (0 when it has none)
PosIn(s, f) ==
    IF \E k \in 1..Len(s) : s[k].file = f
    THEN CHOOSE k \in 1..Len(s) : s[k].file = f
    ELSE 0
\* Enumerating, Distributing&Converting, Draining, Assembling, Done
\* (a job whose enumeration raised never leaves Enumerating)
PhaseRank ==
    CASE mainpc \in {"process_files", "raised"} -> 1
      [] mainpc \in {"start", "join"} -> 2
      [] mainpc = "write_pdf" -> 3
      [] mainpc = "merge" -> 4
      [] mainpc = "done" -> 5

TypeOK ==
    /\ mainpc \in {"process_files", "raised", "start", "join", "write_pdf",
                   "merge", "done"}
    /\ file \in FileNames \cup {NoFile}
    /\ sem \in 0..MaxTasks
    /\ rlock \in 0..NumWorkers
    /\ Len(files) <= MaxTasks
    /\ pc \in [Workers -> {"new", "qsize", "get", "got", "convert", "exited"}]

\* C1: under every interleaving no task is pulled twice, and once all
\* workers have exited every enumerated task has been pulled exactly once.
C1_PulledExactlyOnce ==
    /\ \A f \in FileIds : pulls[f] <= 1
    /\ AllExited => \A f \in FileIds : pulls[f] = 1

C1_Witness ==
    /\ AllExited
    /\ Len(files) = MaxTasks
    /\ \A w \in Workers : task[w] # NoTask

\* C2: once every worker has been joined, output_list holds exactly as many
\* results as process_files enumerated tasks, whatever the render outcomes.
C2_ResultCount ==
    joined = NumWorkers =>
        /\ Len(output_list) = Len(files)
        /\ number_of_svg_files = Len(files)

C2_Witness ==
    /\ joined = NumWorkers
    /\ Len(files) = MaxTasks
    /\ \E f \in FileIds : Failed(f)
    /\ \E f \in FileIds : Rendered(f)

\* C3: with pairwise distinct page indices the results are handed to the
\* merger in strictly ascending page order, and at the end all of them were.
C3_AscendingOrder ==
    DistinctPages =>
        /\ \A i, j \in 1..Len(fed) :
              i < j => fed[i].page_number < fed[j].page_number
        /\ mainpc = "done" => Len(fed) = Len(files)

C3_Witness ==
    /\ mainpc = "done"
    /\ DistinctPages
    /\ Len(appended) >= 2
    /\ appended[1].page_number > appended[2].page_number

\* C4: a task whose rendering failed is published as (its page index,
\* BLANK_PDF_PAGE); in the finished document its page is the placeholder and
\* error_page names its page index.
C4_FallbackPage ==
    \A f \in FileIds : Failed(f) =>
        /\ \E k \in 1..Len(appended) :
              appended[k] = [page_number |-> files[f].page_number,
                             pdf |-> BLANK_PDF_PAGE, file |-> f]
        /\ mainpc = "done" =>
              /\ \E k \in 1..Len(merged) :
                    /\ merged[k].file = f
                    /\ merged[k].pdf = BLANK_PDF_PAGE
              /\ \E k \in 1..Len(error_page) :
                    error_page[k] = files[f].page_number
              /\ written
              /\ report = "errors"

C4_Witness ==
    /\ mainpc = "done"
    /\ Len(files) = MaxTasks
    /\ Failed(1)
    /\ \E f \in FileIds : Rendered(f) /\ Outcome(f) # BLANK_PDF_PAGE

\* C5: the step that converts a task always returns that worker to the queue
\* check and leaves the other workers where they are, whether the rendering
\* failed or not, and it publishes the placeholder for a failure and the
\* adapter's bytes for a success.
C5_FailureContained ==
    [][\A w \in Workers :
          (pc[w] = "convert" /\ pc'[w] # "convert") =>
              /\ pc'[w] = "qsize"
              /\ \A v \in Workers \ {w} : pc'[v] = pc[v]
              /\ Len(output_list') = Len(output_list) + 1
              /\ LET f == task[w].svg_data
                     r == output_list'[Len(output_list')]
                 IN /\ r.file = f
                    /\ Failed(f)' => r.pdf = BLANK_PDF_PAGE
                    /\ Rendered(f)' => r.pdf = Outcome(f)']_vars

\* the first worker alone rendered file 1, which failed, and now converts
\* another task
C5_Witness ==
    /\ pc[1] = "convert"
    /\ \A w \in Workers \ {1} : pc[w] = "new"
    /\ Failed(1)
    /\ task[1].svg_data = 2

\* C6 (as stated): results that share a page index are handed to the merger
\* in the order in which they were appended to output_list.
C6_StableCollectionOrder ==
    \A i, j \in 1..Len(fed) :
        (i < j /\ fed[i].page_number = fed[j].page_number) =>
            PosIn(appended, fed[i].file) < PosIn(appended, fed[j].file)

\* C6 (amended): results that share a page index are handed to the merger in
\* ascending order of their rendered bytes; only results equal in page index
\* and in bytes keep the order in which they were appended.
C6_TiesByBytes ==
    \A i, j \in 1..Len(fed) :
        (i < j /\ fed[i].page_number = fed[j].page_number) =>
            \/ fed[i].pdf < fed[j].pdf
            \/ /\ fed[i].pdf = fed[j].pdf
               /\ PosIn(appended, fed[i].file) < PosIn(appended, fed[j].file)

C6_Witness ==
    /\ mainpc = "done"
    /\ Len(appended) >= 2
    /\ appended[1].page_number = appended[2].page_number
    /\ appended[1].pdf > appended[2].pdf

\* C7: whenever write_pdf has begun, every worker has exited and the result
\* of every enumerated task is already in the list.
C7_AssembleAfterJoin ==
    WritePdfBegun =>
        /\ AllExited
        /\ \A f \in FileIds : PosIn(appended, f) # 0
        /\ Len(appended) = Len(files)

C7_Witness ==
    /\ mainpc = "write_pdf"
    /\ Len(files) = MaxTasks
    /\ appended[1].file # 1

\* C8: with every process and the feeder thread scheduled fairly, every
\* worker exits and main() reaches the end of write_pdf.
C8_Terminates == <>(mainpc = "done" /\ AllExited)

\* a worker is about to get Empty from a queue that reports a positive size
C8_Witness ==
    \E w \in Workers : pc[w] = "get" /\ sem > 0 /\ (rlock # 0 \/ pipe = <<>>)

\* C9: the phase never moves backwards, Done is never left, nothing is put
\* on the queue once the workers run, and no file is rendered twice.
C9_ForwardOnly ==
    [][/\ PhaseRank' >= PhaseRank
       /\ mainpc = "done" => mainpc' = "done"
       /\ PhaseRank >= 2 =>
             /\ sem' <= sem
             /\ Len(buffer') + Len(pipe') <= Len(buffer) + Len(pipe)
       /\ \A f \in DOMAIN renders' : Len(renders'[f]) <= 1]_vars

C9_Witness ==
    /\ mainpc = "done"
    /\ \E f \in FileIds : Failed(f) /\ Len(renders[f]) = 1
    /\ pipe = <<>>
    /\ sem = 0

\* C10: with no page enumerated no worker publishes a result, write_pdf
\* writes no document, and the report says there was nothing to do.
C10_NothingToDo ==
    (mainpc = "done" /\ Len(files) = 0) =>
        /\ output_list = <<>>
        /\ ~written
        /\ report = "nothing to do"

\* a page is degraded when its rendering failed or the merger rejected its
\* rendered bytes
Degraded(f) == Failed(f) \/ (Rendered(f) /\ MergerRejects(Outcome(f)))
Accepted(r) == ~MergerRejects(r.pdf)
Listed(r) == MergerRejects(r.pdf) \/ r.pdf = BLANK_PDF_PAGE
PagesOf(s) == [k \in 1..Len(s) |-> s[k].page_number]
Tuples(s) == [k \in 1..Len(s) |-> <<s[k].page_number, s[k].pdf>>]
IsPrefix(s, t) == Len(s) <= Len(t) /\ SubSeq(t, 1, Len(s)) = s
CountPage(s, p) == Cardinality({k \in 1..Len(s) : s[k].page_number = p})
CountFile(s, f) == Cardinality({k \in 1..Len(s) : s[k].file = f})

\* C11: when merger.append fails on a result, its page index is in
\* error_page, every other result is still merged, in the sorted order, and
\* the document is written.
C11_AssemblyFailureContained ==
    (mainpc = "done" /\ output_list # <<>>) =>
        /\ written
        /\ fed = output_list
        /\ merged = SelectSeq(fed, Accepted)
        /\ \A k \in 1..Len(fed) : MergerRejects(fed[k].pdf) =>
              \E e \in 1..Len(error_page) : error_page[e] = fed[k].page_number

C11_Witness ==
    /\ mainpc = "done"
    /\ Len(fed) >= 2
    /\ MergerRejects(fed[1].pdf)
    /\ ~MergerRejects(fed[2].pdf)
    /\ Len(merged) = Len(fed) - 1

\* C12: every degraded page is in the final document as the placeholder, so
\* the document has as many pages as there are results and tasks.
C12_EveryPageInDocument ==
    mainpc = "done" =>
        /\ Len(merged) = Len(output_list)
        /\ Len(merged) = Len(files)
        /\ \A f \in FileIds : Degraded(f) =>
              \E k \in 1..Len(merged) :
                  merged[k].file = f /\ merged[k].pdf = BLANK_PDF_PAGE

\* C13: at the end error_page names a page index exactly when a file with
\* that index failed to render or was rejected by the merger.
C13_ExactlyDegraded ==
    mainpc = "done" =>
        \A p \in PageIndexes :
            (\E e \in 1..Len(error_page) : error_page[e] = p)
            <=> (\E f \in FileIds : files[f].page_number = p /\ Degraded(f))

\* the result the adapter's outcome on file f gives
ResultOf(f) ==
    [page_number |-> files[f].page_number,
     pdf |-> IF Failed(f) THEN BLANK_PDF_PAGE ELSE Outcome(f),
     file |-> f]
\* the results in enumeration order, sorted
Canonical == SortList([f \in FileIds |-> ResultOf(f)])

\* C14: the pages handed to the merger, the pages merged and error_page are
\* determined by the enumerated tasks and the adapter's outcomes alone: they
\* equal what the enumeration order gives, whatever order the workers
\* appended in, so two runs on the same input agree.
C14_RunIndependent ==
    mainpc = "done" =>
        /\ Tuples(fed) = Tuples(Canonical)
        /\ Tuples(merged) = Tuples(SelectSeq(Canonical, Accepted))
        /\ error_page = PagesOf(SelectSeq(Canonical, Listed))

C14_Witness ==
    /\ mainpc = "done"
    /\ Len(appended) >= 2
    /\ appended[1].file = 2
    /\ appended[2].file = 1
    /\ appended[1].page_number = appended[2].page_number
    /\ appended[1].pdf # appended[2].pdf

\* C15: when process_files raises for a path that is neither a directory nor
\* an archive, nothing was put on the queue, no process was started and
\* write_pdf never ran.
C15_InputError ==
    mainpc = "raised" =>
        /\ files = <<>>
        /\ buffer = <<>> /\ pipe = <<>> /\ sem = 0
        /\ started = 0
        /\ \A w \in Workers : pc[w] = "new"
        /\ output_list = <<>>
        /\ fed = <<>>
        /\ ~written
        /\ report = "none"

C15_Witness == mainpc = "raised" /\ file = NoFile

\* the last position of file_name that holds a digit (0 when none does)
LastDigit(file_name) ==
    IF \E i \in 1..Len(file_name) : IsDigit(file_name[i])
    THEN CHOOSE i \in 1..Len(file_name) :
            /\ IsDigit(file_name[i])
            /\ \A j \in (i + 1)..Len(file_name) : ~IsDigit(file_name[j])
    ELSE 0
\* the first position of the run of digits that ends at position last
RunStart(file_name, last) ==
    CHOOSE i \in 1..last :
        /\ \A j \in i..last : IsDigit(file_name[j])
        /\ i = 1 \/ ~IsDigit(file_name[i - 1])

\* C16: the file just enumerated got exactly one task; its page index is 0
\* when its name holds no digit and otherwise the integer value of the last
\* run of digits of the name, and the enumeration goes on.
C16_PageIndexOfName ==
    file # NoFile =>
        /\ mainpc = "process_files"
        /\ sem = Len(files)
        /\ Len(buffer) + Len(pipe) = Len(files)
        /\ LET t == files[Len(files)]
               last == LastDigit(file)
           IN /\ t.svg_data = Len(files)
              /\ last = 0 => t.page_number = 0
              /\ last # 0 => t.page_number =
                    IntOf(SubSeq(file, RunStart(file, last), last))

C16_Witness ==
    /\ Len(files) = MaxTasks
    /\ LastDigit(file) = 0
    /\ files[1].page_number # 0
    /\ buffer # <<>>
    /\ buffer[Len(buffer)].page_number = 0

\* C17: a worker only exits from the queue check, with qsize() = 0 and every
\* task pulled; an Empty from get_nowait sends it back to the queue check.
C17_ExitOnlyOnEmptyQueue ==
    [][\A w \in Workers :
          /\ (pc[w] # "exited" /\ pc'[w] = "exited") =>
                /\ pc[w] = "qsize"
                /\ sem = 0
                /\ buffer = <<>> /\ pipe = <<>>
                /\ \A f \in FileIds : pulls[f] = 1
          /\ (pc[w] = "get" /\ pc'[w] # "get" /\ task'[w] = task[w]
              /\ pulls' = pulls) => pc'[w] = "qsize"]_vars

\* a worker that never got a task has exited while another still converts
C17_Witness ==
    \E w, v \in Workers :
        /\ pc[w] = "exited"
        /\ task[w] = NoTask
        /\ pc[v] = "convert"
        /\ Len(files) = MaxTasks

\* C18: every file has at most one result, exactly one once it was
\* converted; the page indices in output_list are a sub-multiset of the
\* enumerated ones, and the same multiset once every worker was joined.
C18_PageIndexKept ==
    /\ \A f \in FileIds :
          /\ CountFile(output_list, f) = IF renders[f] # <<>> THEN 1 ELSE 0
          /\ CountFile(output_list, f) <= pulls[f]
    /\ \A k \in 1..Len(output_list) :
          output_list[k].page_number = files[output_list[k].file].page_number
    /\ \A p \in PageIndexes :
          /\ CountPage(output_list, p) <= CountPage(files, p)
          /\ joined = NumWorkers =>
                CountPage(output_list, p) = CountPage(files, p)

C18_Witness ==
    /\ joined = NumWorkers
    /\ Len(files) = MaxTasks
    /\ files[1].page_number # 0
    /\ output_list[1].file # 1

\* C19: before write_pdf runs, every step leaves the old output_list as a
\* prefix of the new one.
C19_AppendOnly ==
    [][mainpc # "write_pdf" => IsPrefix(output_list, output_list')]_vars

C19_Witness ==
    /\ mainpc = "join"
    /\ Len(output_list) = MaxTasks
    /\ \E w \in Workers : pc[w] # "exited"

\* C20: the results are handed to the merger in ascending order of the whole
\* (page index, rendered bytes) pair, and at the end they are the appended
\* results, so their order does not depend on the order of the appends.
C20_WholePairOrder ==
    /\ \A i, j \in 1..Len(fed) : i < j =>
          \/ fed[i].page_number < fed[j].page_number
          \/ /\ fed[i].page_number = fed[j].page_number
             /\ fed[i].pdf <= fed[j].pdf
    /\ mainpc = "done" =>
          /\ Len(fed) = Len(appended)
          /\ \A f \in FileIds : CountFile(fed, f) = CountFile(appended, f)

C20_Witness ==
    /\ mainpc = "done"
    /\ Len(appended) = MaxTasks
    /\ appended[1].page_number = appended[2].page_number
    /\ appended[1].pdf = 2
    /\ appended[2].pdf = 0
====
